---- MODULE Spec2Model ----
(***************************************************************************)
(* Verification model of rag-cli's retrieval pipeline: the chunker         *)
(* (pkg/embedding), the indexing run (cmd/index.go with the document       *)
(* manager), the hybrid search engine (pkg/database/search_engine.go),     *)
(* the reranking service (pkg/reranking) and the search command.           *)
(*                                                                         *)
(* Text is a sequence of one-character strings over an ASCII alphabet, so  *)
(* Go's byte length (len), rune iteration (range) and byte indexing        *)
(* (text[i]) coincide.  Go indexes from 0, TLA+ from 1.                     *)
(***************************************************************************)
EXTENDS Integers, Sequences, FiniteSets, TLC

VARIABLES
    config,     \* config.EmbeddingConfig: [ChunkSize, ChunkOverlap]
    text,       \* the text handed to Service.ChunkText
    chunkRes,   \* what ChunkText returned (and the calls it made), or the idle value
    store,      \* the documents table: a set of rows, each with its own generated id
    idx,        \* per indexing run: position in processFolder and its local variables
    req,        \* the arguments of one SearchDocumentsWithOptions call and the engine
    opts,       \* the caller's SearchOptions object (the callee holds a pointer to it)
    out,        \* what the search call returned and the external calls it made
    cmd         \* the search command: its arguments and flags, its position, what it
                \* printed, and whether its caller has cancelled

chunkVars == <<config, text, chunkRes>>
indexVars == <<store, idx>>
searchVars == <<req, opts, out, cmd>>

(***************************************************************************)
(* Bounds of the chunker model.                                            *)
(***************************************************************************)
MaxLen == 5
MaxChunkSize == 4
MaxOverlap == 4

Alphabet == {"a", ".", " "}

Texts == UNION {[1..n -> Alphabet] : n \in 0..MaxLen}

Nil == "nil"

\* the search command is not running
NoCmd == [pc |-> "none"]

\* no search call made yet
IdleOut == [pc |-> "idle", results |-> <<>>, err |-> Nil, retrieved |-> <<>>,
            queries |-> <<>>, rerankCalls |-> <<>>]

(***************************************************************************)
(* pkg/embedding: helpers                                                  *)
(***************************************************************************)
\* unicode.IsSpace, restricted to the alphabet
IsSpace(c) == c = " "

\* char == '.' || char == '!' || char == '?'
IsSentenceEnd(c) == c \in {".", "!", "?"}

RECURSIVE TrimLeft(_)
TrimLeft(s) ==
    IF s # <<>> /\ IsSpace(Head(s)) THEN TrimLeft(Tail(s)) ELSE s

RECURSIVE TrimRight(_)
TrimRight(s) ==
    IF s # <<>> /\ IsSpace(s[Len(s)]) THEN TrimRight(SubSeq(s, 1, Len(s) - 1)) ELSE s

\* strings.TrimSpace
TrimSpace(s) == TrimRight(TrimLeft(s))

\* metadata map attached to every chunk (copyMetadata copies it per chunk)
copyMetadata(metadata) == metadata

(***************************************************************************)
(* Service.splitIntoSentences.  `current` is the strings.Builder; the      *)
(* look-ahead reads text[current.Len()], an index into the whole text      *)
(* taken from the length of the current sentence.                          *)
(***************************************************************************)
\* nextChar := ' '; if len(text) > current.Len() { nextChar = rune(text[current.Len()]) }
LookAhead(txt, current) ==
    IF Len(txt) > Len(current) THEN txt[Len(current) + 1] ELSE " "

\* unicode.IsSpace(nextChar) || current.Len() == len(text)
IsBoundary(txt, current) ==
    IsSpace(LookAhead(txt, current)) \/ Len(current) = Len(txt)

AppendNonEmpty(sentences, s) ==
    IF s # <<>> THEN Append(sentences, s) ELSE sentences

RECURSIVE splitLoop(_, _, _, _)
splitLoop(txt, i, current, sentences) ==
    IF i > Len(txt)
    THEN AppendNonEmpty(sentences, TrimSpace(current))
    ELSE LET cur == Append(current, txt[i]) IN
         IF IsSentenceEnd(txt[i]) /\ IsBoundary(txt, cur)
         THEN splitLoop(txt, i + 1, <<>>, AppendNonEmpty(sentences, TrimSpace(cur)))
         ELSE splitLoop(txt, i + 1, cur, sentences)

splitIntoSentences(txt) == splitLoop(txt, 1, <<>>, <<>>)

(***************************************************************************)
(* Service.getOverlapText                                                  *)
(***************************************************************************)
SetMin(S) == CHOOSE x \in S : \A y \in S : x <= y

\* overlapSize <= 0 || len(text) <= overlapSize
NoOverlap_Strict(txt, overlapSize) == overlapSize <= 0 \/ Len(txt) < overlapSize

NoOverlap(txt, overlapSize) == overlapSize <= 0 \/ Len(txt) <= overlapSize

getOverlapText(txt, overlapSize) ==
    IF NoOverlap(txt, overlapSize) THEN <<>>
    ELSE LET overlapText == SubSeq(txt, Len(txt) - overlapSize + 1, Len(txt))
             n == Len(overlapText)
             \* positions i (1-based) of a sentence end followed by whitespace
             bnd == {i \in 1..n : IsSentenceEnd(overlapText[i])
                                  /\ i + 1 <= n /\ IsSpace(overlapText[i + 1])}
         IN  IF bnd # {}
             THEN TrimSpace(SubSeq(overlapText, SetMin(bnd) + 1, n))
             ELSE TrimSpace(overlapText)

(***************************************************************************)
(* Service.ChunkText                                                       *)
(***************************************************************************)
\* text = strings.TrimSpace(text)
CleanText_NoTrim(txt) == txt

CleanText(txt) == TrimSpace(txt)

\* chunkIndex++
NextChunkIndex_Stuck(chunkIndex, overlapText) ==
    IF overlapText = <<>> THEN chunkIndex + 1 ELSE chunkIndex

NextChunkIndex(chunkIndex, overlapText) == chunkIndex + 1

NewChunk(current, chunkIndex, metadata) ==
    [Content |-> TrimSpace(current), Index |-> chunkIndex,
     Metadata |-> copyMetadata(metadata), Embedding |-> Nil]

\* The loop over sentences.  st = [chunks, currentChunk, currentLength,
\* chunkIndex, overlapCalls]; overlapCalls records each getOverlapText call.
RECURSIVE chunkLoop(_, _, _, _, _)
chunkLoop(sentences, k, st, cfg, metadata) ==
    IF k > Len(sentences) THEN st
    ELSE LET sentence == sentences[k]
             sentenceLength == Len(sentence)
             closes == st.currentLength + sentenceLength > cfg.ChunkSize
                       /\ st.currentLength > 0
             overlapText == getOverlapText(st.currentChunk, cfg.ChunkOverlap)
             st1 == IF closes
                    THEN [chunks |-> Append(st.chunks,
                                        NewChunk(st.currentChunk, st.chunkIndex, metadata)),
                          currentChunk |-> overlapText,
                          currentLength |-> Len(overlapText),
                          chunkIndex |-> NextChunkIndex(st.chunkIndex, overlapText),
                          overlapCalls |-> Append(st.overlapCalls,
                                        [closed |-> st.currentChunk, overlap |-> overlapText])]
                    ELSE st
         IN  chunkLoop(sentences, k + 1,
                       [st1 EXCEPT !.currentChunk = st1.currentChunk \o sentence,
                                   !.currentLength = st1.currentLength + sentenceLength],
                       cfg, metadata)

ChunkText(txt, metadata, cfg) ==
    LET t == CleanText(txt) IN
    IF t = <<>>
    THEN [chunks |-> <<>>, err |-> "empty text provided",
          sentences |-> <<>>, overlapCalls |-> <<>>]
    ELSE LET sentences == splitIntoSentences(t)
             st == chunkLoop(sentences, 1,
                       [chunks |-> <<>>, currentChunk |-> <<>>, currentLength |-> 0,
                        chunkIndex |-> 0, overlapCalls |-> <<>>], cfg, metadata)
             chunks == IF st.currentLength > 0
                       THEN Append(st.chunks, NewChunk(st.currentChunk, st.chunkIndex, metadata))
                       ELSE st.chunks
         IN  [chunks |-> chunks, err |-> Nil,
              sentences |-> sentences, overlapCalls |-> st.overlapCalls]

NoMetadata == <<>>

(***************************************************************************)
(* Specification of the chunker: any configuration, any text, one call.    *)
(* embedding.New stores the configuration it is given without calling      *)
(* EmbeddingConfig.Validate, so ChunkText can run with any ChunkSize and   *)
(* ChunkOverlap, including ChunkOverlap >= ChunkSize.                      *)
(***************************************************************************)
Idle == [chunks |-> <<>>, err |-> "idle", sentences |-> <<>>, overlapCalls |-> <<>>]

InitChunk ==
    /\ config \in [ChunkSize : 0..MaxChunkSize, ChunkOverlap : 0..MaxOverlap]
    /\ text \in Texts
    /\ chunkRes = Idle
    /\ store = {}
    /\ idx = <<>>
    /\ req = Nil /\ opts = Nil /\ out = IdleOut /\ cmd = NoCmd

CallChunkText ==
    /\ chunkRes = Idle
    /\ chunkRes' = ChunkText(text, NoMetadata, config)
    /\ UNCHANGED <<config, text, indexVars, searchVars>>

NextChunk == CallChunkText

vars == <<config, text, chunkRes, store, idx, req, opts, out, cmd>>

SpecChunk == InitChunk /\ [][NextChunk]_vars

ChunkDone == chunkRes.err # "idle"

(***************************************************************************)
(* Chunker claims                                                          *)
(***************************************************************************)
\* C1: a text whose trimmed length is at most ChunkSize yields exactly one
\* chunk, and that chunk's content equals the trimmed input text.
C1_SingleChunkEqualsTrimmedInput ==
    (ChunkDone /\ TrimSpace(text) # <<>> /\ Len(TrimSpace(text)) <= config.ChunkSize)
        => /\ Len(chunkRes.chunks) = 1
           /\ chunkRes.chunks[1].Content = TrimSpace(text)

\* Reference sentence splitting: a sentence ends exactly at each '.', '!'
\* or '?' that is followed by whitespace or is the last character.
IsTrueBoundary(txt, i) ==
    IsSentenceEnd(txt[i]) /\ (i = Len(txt) \/ IsSpace(txt[i + 1]))

RECURSIVE RefSplit(_, _, _, _)
RefSplit(txt, i, current, sentences) ==
    IF i > Len(txt)
    THEN AppendNonEmpty(sentences, TrimSpace(current))
    ELSE IF IsTrueBoundary(txt, i)
         THEN RefSplit(txt, i + 1, <<>>,
                       AppendNonEmpty(sentences, TrimSpace(Append(current, txt[i]))))
         ELSE RefSplit(txt, i + 1, Append(current, txt[i]), sentences)

\* C2: splitIntoSentences ends a sentence exactly at each '.', '!' or '?'
\* followed by whitespace or at the end of the text, and nowhere else, for
\* the second and later sentences as well as the first.
C2_SentencesEndAtBoundaries ==
    (ChunkDone /\ chunkRes.err = Nil)
        => chunkRes.sentences = RefSplit(TrimSpace(text), 1, <<>>, <<>>)

\* C3: the chunks returned by ChunkText carry the indices 0..N-1 in output
\* order, with no gap and no repeat.
C3_IndicesContiguous ==
    (ChunkDone /\ chunkRes.err = Nil)
        => \A i \in 1..Len(chunkRes.chunks) : chunkRes.chunks[i].Index = i - 1

C3_Witness ==
    /\ ChunkDone /\ chunkRes.err = Nil
    /\ Len(chunkRes.chunks) >= 3
    /\ \E i \in 1..Len(chunkRes.overlapCalls) : chunkRes.overlapCalls[i].overlap # <<>>

C5_EmptyTextFails ==
    ChunkDone =>
        /\ (TrimSpace(text) = <<>>) => (chunkRes.err # Nil /\ chunkRes.chunks = <<>>)
        /\ (chunkRes.err = Nil) => (chunkRes.chunks # <<>>)

C5_Witness ==
    /\ ChunkDone
    /\ text # <<>> /\ TrimSpace(text) = <<>>
    /\ chunkRes.err # Nil

(***************************************************************************)
(* Indexing: cmd/index.go processFolder with DocumentManagerImpl.          *)
(* A run walks one folder; stat, read, delete, chunk, embed and insert     *)
(* can each fail.  Every DELETE and INSERT statement is one step.          *)
(***************************************************************************)
\* two runs of the index command: an earlier and a later one
Runs == {1, 2}

Collections == {"c1", "c2"}

\* the entries filepath.WalkDir hands to the callback, in lexical order
WalkOrder ==
    << [path |-> "docs",       name |-> "docs",  ext |-> "",     isDir |-> TRUE],
       [path |-> "docs/a.txt", name |-> "a.txt", ext |-> ".txt", isDir |-> FALSE],
       [path |-> "docs/b.png", name |-> "b.png", ext |-> ".png", isDir |-> FALSE],
       [path |-> "docs/c.md",  name |-> "c.md",  ext |-> ".md",  isDir |-> FALSE] >>

\* contents a file can have when a run reads it
FileTexts ==
    { <<" ">>,
      <<"a", ".">>,
      <<"a", ".", " ", "a">> }

\* isTextFile: the extension table (the entries the walk can meet)
textExtensions == {".txt", ".md", ".rst", ".log", ".go", ".json", ".yaml"}

isTextFile(e) == e.ext \in textExtensions

TextPaths == {WalkOrder[i].path : i \in {j \in 1..Len(WalkOrder) :
                  ~WalkOrder[j].isDir /\ isTextFile(WalkOrder[j])}}

\* DocumentManagerImpl.DeleteDocumentsByPath:
\* DELETE FROM documents WHERE collection_id = $1 AND file_path = $2
DeleteDocumentsByPath_FirstChunkOnly(rows, collectionID, filePath) ==
    {row \in rows : ~(row.CollectionID = collectionID /\ row.FilePath = filePath
                      /\ row.ChunkIndex = 0)}

DeleteDocumentsByPath(rows, collectionID, filePath) ==
    {row \in rows : ~(row.CollectionID = collectionID /\ row.FilePath = filePath)}

\* DocumentManagerImpl.InsertDocument: INSERT ... RETURNING id (a fresh id)
InsertDocument(rows, doc, id) == rows \cup {[doc EXCEPT !.ID = id]}

\* client.Embedder.GenerateEmbedding, when it succeeds
Embed(content) == "vec"

\* Service.GenerateEmbeddings: sequential; the embedder fails at chunk failAt
\* (0 = never).  Chunks before the failing one already carry an embedding.
GenerateEmbeddings(chunks, failAt) ==
    [chunks |-> [i \in 1..Len(chunks) |->
                    IF failAt = 0 \/ i < failAt
                    THEN [chunks[i] EXCEPT !.Embedding = Embed(chunks[i].Content)]
                    ELSE chunks[i]],
     err |-> IF failAt = 0 THEN Nil ELSE "failed to generate embedding"]

\* `return nil // Continue with other files` after output.Error
OnFileError_Abort(stage) == stage

OnFileError(stage) == Nil

IdleRun ==
    [pc |-> "idle", collectionID |-> Nil, queue |-> <<>>, entry |-> Nil,
     content |-> <<>>, chunks |-> <<>>, k |-> 0, insertErrs |-> 0, inserted |-> 0,
     totalFiles |-> 0, totalChunks |-> 0, err |-> Nil, overlap |-> FALSE,
     log |-> [p \in TextPaths |-> [outcome |-> "none", chunks |-> <<>>, insertErrs |-> 0]]]

\* the run's own view of one file ended (ghost): what happened and with which chunks
Logged(run, outcome) ==
    [run.log EXCEPT ![run.entry.path] =
        [outcome |-> outcome, chunks |-> run.chunks, insertErrs |-> run.insertErrs]]

\* the callback returned ret for the current entry: nil continues the walk,
\* anything else makes WalkDir stop and return it
Returned(run, ret, outcome) ==
    IF ret = Nil
    THEN [run EXCEPT !.pc = "walk", !.queue = Tail(run.queue), !.log = Logged(run, outcome)]
    ELSE [run EXCEPT !.pc = "done", !.err = ret, !.log = Logged(run, outcome)]

\* indexCmd.RunE calls processFolder, whenever the command is run; overlap
\* records (ghost) that another run was in progress at that moment
StartRunConcurrent(r) ==
    /\ r \in DOMAIN idx
    /\ idx[r].pc = "idle"
    /\ \E c \in Collections :
          idx' = [idx EXCEPT ![r] =
                     [IdleRun EXCEPT !.pc = "walk", !.collectionID = c, !.queue = WalkOrder,
                                     !.overlap = \E q \in Runs \ {r} :
                                                     idx[q].pc \notin {"idle", "done"}]]
    /\ UNCHANGED <<store, chunkVars, searchVars>>

\* the same with the runs of the command serialized from outside (no run
\* starts while another is in progress)
StartRun(r) ==
    /\ \A q \in Runs : q < r => idx[q].pc = "done"
    /\ StartRunConcurrent(r)

\* the WalkDir callback up to and including DeleteDocumentsByPath
VisitEntry(r) ==
    /\ idx[r].pc = "walk"
    /\ idx[r].queue # <<>>
    /\ LET run == idx[r]
           e == Head(run.queue)
           skip == [run EXCEPT !.queue = Tail(run.queue)]
           cur == [run EXCEPT !.entry = e, !.chunks = <<>>, !.insertErrs = 0]
       IN  IF e.isDir
           THEN \* err != nil (the directory could not be read): return err
                \E walkErr \in BOOLEAN :
                   /\ idx' = [idx EXCEPT ![r] =
                                 IF walkErr THEN [run EXCEPT !.pc = "done", !.err = "walkdir"]
                                 ELSE skip]
                   /\ UNCHANGED store
           ELSE IF ~isTextFile(e)
           THEN idx' = [idx EXCEPT ![r] = skip] /\ UNCHANGED store
           ELSE \/ \E stage \in {"stat", "read", "delete"} :
                      /\ idx' = [idx EXCEPT ![r] = Returned(cur, OnFileError(stage), stage)]
                      /\ UNCHANGED store
                \/ \E content \in FileTexts :
                      /\ store' = DeleteDocumentsByPath(store, run.collectionID, e.path)
                      /\ idx' = [idx EXCEPT ![r] = [cur EXCEPT !.pc = "chunk",
                                                              !.content = content]]
    /\ UNCHANGED <<chunkVars, searchVars>>

\* ChunkText and GenerateEmbeddings for the current file
ChunkAndEmbed(r) ==
    /\ idx[r].pc = "chunk"
    /\ LET run == idx[r]
           metadata == [file_path |-> run.entry.path, file_name |-> run.entry.name,
                        file_size |-> Len(run.content)]
           res == ChunkText(run.content, metadata, config)
       IN  IF res.err # Nil
           THEN idx' = [idx EXCEPT ![r] = Returned(run, OnFileError("chunk"), "chunk")]
           ELSE \E failAt \in 0..Len(res.chunks) :
                   LET emb == GenerateEmbeddings(res.chunks, failAt) IN
                   IF emb.err # Nil
                   THEN idx' = [idx EXCEPT ![r] =
                                   Returned(run, OnFileError("embed"), "embed")]
                   ELSE idx' = [idx EXCEPT ![r] = [run EXCEPT !.pc = "insert",
                                                             !.chunks = emb.chunks, !.k = 1]]
    /\ UNCHANGED <<store, chunkVars, searchVars>>

\* one iteration of `for _, chunk := range chunks`: InsertDocument, or
\* output.Error and continue when it fails (json.Marshal of the string map
\* takes the same `continue` and leaves the same state)
InsertChunk(r) ==
    /\ idx[r].pc = "insert"
    /\ idx[r].k <= Len(idx[r].chunks)
    /\ LET run == idx[r]
           chunk == run.chunks[run.k]
           doc == [ID |-> Nil, CollectionID |-> run.collectionID,
                   FilePath |-> run.entry.path, FileName |-> run.entry.name,
                   Content |-> chunk.Content, ChunkIndex |-> chunk.Index,
                   Embedding |-> chunk.Embedding, Metadata |-> chunk.Metadata]
       IN  \/ /\ store' = InsertDocument(store, doc, <<r, run.inserted + 1>>)
              /\ idx' = [idx EXCEPT ![r] = [run EXCEPT !.k = run.k + 1,
                                                     !.inserted = run.inserted + 1]]
           \/ /\ UNCHANGED store
              /\ idx' = [idx EXCEPT ![r] = [run EXCEPT !.k = run.k + 1,
                                                     !.insertErrs = run.insertErrs + 1]]
    /\ UNCHANGED <<chunkVars, searchVars>>

\* after the insert loop: totalFiles++, totalChunks += len(chunks), return nil
FinishFile(r) ==
    /\ idx[r].pc = "insert"
    /\ idx[r].k > Len(idx[r].chunks)
    /\ LET run == idx[r] IN
       idx' = [idx EXCEPT ![r] =
                  [Returned(run, Nil, "ok") EXCEPT !.totalFiles = run.totalFiles + 1,
                       !.totalChunks = run.totalChunks + Len(run.chunks)]]
    /\ UNCHANGED <<store, chunkVars, searchVars>>

\* WalkDir has visited every entry: processFolder returns totalFiles, totalChunks, nil
FinishRun(r) ==
    /\ idx[r].pc = "walk"
    /\ idx[r].queue = <<>>
    /\ idx' = [idx EXCEPT ![r].pc = "done"]
    /\ UNCHANGED <<store, chunkVars, searchVars>>

InitIndex ==
    /\ config = [ChunkSize |-> 2, ChunkOverlap |-> 1]
    /\ text = <<>>
    /\ chunkRes = Idle
    /\ store = {}
    /\ idx = [r \in Runs |-> IdleRun]
    /\ req = Nil /\ opts = Nil /\ out = IdleOut /\ cmd = NoCmd

NextIndex ==
    \E r \in Runs :
        \/ StartRun(r)
        \/ VisitEntry(r)
        \/ ChunkAndEmbed(r)
        \/ InsertChunk(r)
        \/ FinishFile(r)
        \/ FinishRun(r)

SpecIndex == InitIndex /\ [][NextIndex]_vars

\* runs of the command started at any time, interleaving step by step
NextIndexConcurrent ==
    \E r \in Runs :
        \/ StartRunConcurrent(r)
        \/ VisitEntry(r)
        \/ ChunkAndEmbed(r)
        \/ InsertChunk(r)
        \/ FinishFile(r)
        \/ FinishRun(r)

SpecIndexConcurrent == InitIndex /\ [][NextIndexConcurrent]_vars

(***************************************************************************)
(* Indexing claims                                                         *)
(***************************************************************************)
\* rows of the store for one (collection, file path), as (content, index) pairs
RowsOf(c, p) == {row \in store : row.CollectionID = c /\ row.FilePath = p}

ChunkPairs(chunks) == {<<chunks[i].Content, chunks[i].Index>> : i \in 1..Len(chunks)}

RowPairs(rows) == {<<row.Content, row.ChunkIndex>> : row \in rows}

\* the run that started last
LatestRun(r) == idx[r].pc # "idle" /\ \A q \in Runs : q > r => idx[q].pc = "idle"

FileErrors == {"stat", "read", "delete", "chunk", "embed"}

\* C6: a failure while reading, chunking or embedding one file aborts only
\* that file: the run returns no file's error, it visits every remaining
\* file, and the files whose steps all succeed are stored.
C6_FailureIsolatedPerFile ==
    \A r \in DOMAIN idx :
        (idx[r].pc = "done" /\ LatestRun(r)) =>
            /\ idx[r].err \notin FileErrors
            /\ idx[r].err = Nil =>
                 \A p \in TextPaths :
                    /\ idx[r].log[p].outcome # "none"
                    /\ (idx[r].log[p].outcome = "ok" /\ idx[r].log[p].insertErrs = 0) =>
                          /\ RowPairs(RowsOf(idx[r].collectionID, p))
                                = ChunkPairs(idx[r].log[p].chunks)
                          /\ Cardinality(RowsOf(idx[r].collectionID, p))
                                = Len(idx[r].log[p].chunks)

C6_Witness ==
    \E r \in DOMAIN idx :
        /\ idx[r].pc = "done" /\ idx[r].err = Nil
        /\ idx[r].log["docs/a.txt"].outcome = "embed"
        /\ idx[r].log["docs/c.md"].outcome = "ok"
        /\ idx[r].log["docs/c.md"].insertErrs = 0
        /\ RowsOf(idx[r].collectionID, "docs/c.md") # {}

\* C7: when a file has been indexed with every step succeeding, the store
\* holds for its (collection, file path) exactly the chunks of this run;
\* every row an earlier run stored for the path is gone.
FileIndexed(r) ==
    /\ idx[r].pc = "insert"
    /\ idx[r].k > Len(idx[r].chunks)
    /\ idx[r].insertErrs = 0

C7_ReplaceNotMerge ==
    \A r \in DOMAIN idx :
        FileIndexed(r) =>
            LET rows == RowsOf(idx[r].collectionID, idx[r].entry.path) IN
            /\ RowPairs(rows) = ChunkPairs(idx[r].chunks)
            /\ Cardinality(rows) = Len(idx[r].chunks)
            /\ \A row \in rows : row.ID[1] = r

C7_Witness ==
    \E r \in DOMAIN idx : \E q \in DOMAIN idx :
        /\ q < r
        /\ FileIndexed(r)
        /\ idx[q].collectionID = idx[r].collectionID
        /\ idx[q].log[idx[r].entry.path].outcome = "ok"
        /\ idx[q].log[idx[r].entry.path].insertErrs = 0
        /\ Len(idx[q].log[idx[r].entry.path].chunks) > Len(idx[r].chunks)

(***************************************************************************)
(* Search: pkg/database/search_engine.go.                                  *)
(*                                                                         *)
(* float64 values are modelled as exact rationals <<numerator,             *)
(* denominator>> in lowest terms, so equalities between scores are exact   *)
(* (floating rounding is outside the model).  The store answers a query    *)
(* from per-row values: dist is the cosine distance (<=>) of the row's     *)
(* embedding to the query vector, trank its ts_rank against the query      *)
(* text; a row matches the text query (@@) when trank > 0.                 *)
(***************************************************************************)
Abs(x) == IF x < 0 THEN -x ELSE x

RECURSIVE GCD(_, _)
GCD(a, b) == IF b = 0 THEN a ELSE GCD(b, a % b)

Rat(n, d) ==
    LET g == GCD(Abs(n), Abs(d))
        sgn == IF d < 0 THEN -1 ELSE 1
    IN  <<(sgn * n) \div g, (sgn * d) \div g>>

Tenths(n) == Rat(n, 10)
Zero == <<0, 1>>
One == <<1, 1>>
RAdd(x, y) == Rat(x[1] * y[2] + y[1] * x[2], x[2] * y[2])
RSub(x, y) == Rat(x[1] * y[2] - y[1] * x[2], x[2] * y[2])
RMul(x, y) == Rat(x[1] * y[1], x[2] * y[2])
RDiv(x, y) == Rat(x[1] * y[2], x[2] * y[1])
RLt(x, y) == x[1] * y[2] < y[1] * x[2]
RLe(x, y) == x[1] * y[2] <= y[1] * x[2]

MaxLimit == 2

SearchTypeVector == "vector"
SearchTypeText == "text"
SearchTypeHybrid == "hybrid"
SearchTypeSemantic == "semantic"

\* "fuzzy" stands for any value that is none of the four constants
SearchTypes == {SearchTypeVector, SearchTypeText, SearchTypeHybrid, SearchTypeSemantic, "fuzzy"}

WeightValues == {Tenths(0), Tenths(3), Tenths(7)}

\* the documents table the searches run against
Documents ==
    { [ID |-> 1, CollectionID |-> "c1", FileName |-> <<"A", "1">>, Content |-> <<"x">>,
       dist |-> Tenths(2), trank |-> Tenths(5)],
      [ID |-> 2, CollectionID |-> "c1", FileName |-> <<"b", "2">>, Content |-> <<"y">>,
       dist |-> Tenths(5), trank |-> Tenths(0)],
      [ID |-> 3, CollectionID |-> "c1", FileName |-> <<"a", "3">>, Content |-> <<"x">>,
       dist |-> Tenths(2), trank |-> Tenths(1)],
      [ID |-> 4, CollectionID |-> "c1", FileName |-> <<"b", "4">>, Content |-> <<"z">>,
       dist |-> Tenths(12), trank |-> Tenths(9)],
      [ID |-> 5, CollectionID |-> "c2", FileName |-> <<"a", "5">>, Content |-> <<"x">>,
       dist |-> Tenths(6), trank |-> Tenths(9)] }

\* ---- the store collaborator (PostgreSQL with pgvector) -------------------
Perms(S) ==
    {f \in [1..Cardinality(S) -> S] : \A i, j \in 1..Cardinality(S) : i # j => f[i] # f[j]}

\* ORDER BY key ASC: every order of the rows with non-decreasing key (ties
\* in any order); key is a function of the row
OrderBy(S, key) ==
    {f \in Perms(S) : \A i \in 1..(Cardinality(S) - 1) : RLe(key[f[i]], key[f[i + 1]])}

\* ORDER BY key DESC
OrderByDesc(S, key) == OrderBy(S, [row \in S |-> RSub(Zero, key[row])])

\* LIMIT n
Limit(f, n) == SubSeq(f, 1, IF n < Len(f) THEN n ELSE Len(f))

Lower(c) == CASE c = "A" -> "a" [] c = "X" -> "x" [] OTHER -> c

ToLower(str) == [i \in 1..Len(str) |-> Lower(str[i])]

\* value ILIKE '%' || pattern || '%'
ILike(value, pattern) ==
    \E i \in 0..(Len(value) - Len(pattern)) :
        SubSeq(ToLower(value), i + 1, i + Len(pattern)) = ToLower(pattern)

\* 1 - (embedding <=> $2) as vector_score
VectorScoreSQL(row) == RSub(One, row.dist)

\* to_tsvector('english', content) @@ to_tsquery(...)
MatchesText(row) == RLt(Zero, row.trank)

\* ($5 * (1 - (embedding <=> $2))) + ($6 * ts_rank(...)) as combined_score
CombinedScoreSQL_VectorOnly(row, vectorWeight, textWeight) ==
    RMul(vectorWeight, VectorScoreSQL(row))

CombinedScoreSQL(row, vectorWeight, textWeight) ==
    RAdd(RMul(vectorWeight, VectorScoreSQL(row)), RMul(textWeight, row.trank))

\* the query of searchVectorOnly
QueryVector(rows, collectionID, maxDistance, limit) ==
    LET hit == {row \in rows : row.CollectionID = collectionID /\ RLe(row.dist, maxDistance)}
    IN  {Limit(f, limit) : f \in OrderBy(hit, [row \in hit |-> row.dist])}

\* the query of searchTextOnly
QueryText(rows, collectionID, limit) ==
    LET hit == {row \in rows : row.CollectionID = collectionID /\ MatchesText(row)}
    IN  {Limit(f, limit) : f \in OrderByDesc(hit, [row \in hit |-> row.trank])}

\* the combined query of searchHybrid
QueryHybrid(rows, collectionID, maxDistance, limit, vectorWeight, textWeight) ==
    LET hit == {row \in rows : /\ row.CollectionID = collectionID
                               /\ RLe(row.dist, maxDistance)
                               /\ MatchesText(row)}
    IN  {Limit(f, limit) :
            f \in OrderByDesc(hit, [row \in hit |->
                                      CombinedScoreSQL(row, vectorWeight, textWeight)])}

\* the query of searchSemantic
QuerySemantic(rows, collectionID, fileFilter, contentFilter, maxDistance, limit) ==
    LET hit == {row \in rows :
                   /\ row.CollectionID = collectionID
                   /\ (fileFilter # <<>> => ILike(row.FileName, fileFilter))
                   /\ (contentFilter # <<>> => ILike(row.Content, contentFilter))
                   /\ RLe(row.dist, maxDistance)}
    IN  {Limit(f, limit) : f \in OrderBy(hit, [row \in hit |-> row.dist])}

\* ---- the engine ----------------------------------------------------------
ErrTextRequired == "text query is required for text search"
ErrInputRequired == "either embedding or text query must be provided"
ErrStore == "failed to search documents"
ErrRerank == "failed to apply reranking"

\* what a strategy returns: results, error, the store queries it issued and
\* the options object as the call left it
Ret(results, err, queries, o) ==
    [results |-> results, err |-> err, queries |-> queries, opts |-> o]

\* maxDistance := opts.MaxDistance; if maxDistance <= 0 { maxDistance = 1.0 }
EffectiveMaxDistance(o) == IF RLe(o.MaxDistance, Zero) THEN One ELSE o.MaxDistance

VectorResult(row, o) ==
    [Document |-> row, VectorScore |-> VectorScoreSQL(row), TextScore |-> Zero,
     CombinedScore |-> RMul(VectorScoreSQL(row), o.VectorWeight), Rank |-> 0]

TextResult(row, o) ==
    [Document |-> row, VectorScore |-> Zero, TextScore |-> row.trank,
     CombinedScore |-> RMul(row.trank, o.TextWeight), Rank |-> 0]

HybridResult(row, vectorWeight, textWeight) ==
    [Document |-> row, VectorScore |-> VectorScoreSQL(row), TextScore |-> row.trank,
     CombinedScore |-> CombinedScoreSQL(row, vectorWeight, textWeight), Rank |-> 0]

\* searchVectorOnly: no check of the embedding; the query is always issued.
\* A nil embedding is sent as the empty vector, which the store rejects.
searchVectorOnly(collectionID, embedding, limit, o) ==
    LET maxDistance == EffectiveMaxDistance(o)
        q == [kind |-> "vector", collectionID |-> collectionID, vector |-> embedding,
              maxDistance |-> maxDistance, limit |-> limit]
    IN  {Ret(<<>>, ErrStore, <<q>>, o)}
        \cup (IF embedding = Nil THEN {}
              ELSE {Ret([i \in 1..Len(f) |-> VectorResult(f[i], o)], Nil, <<q>>, o) :
                        f \in QueryVector(store, collectionID, maxDistance, limit)})

searchTextOnly(collectionID, textQuery, limit, o) ==
    IF textQuery = ""
    THEN {Ret(<<>>, ErrTextRequired, <<>>, o)}
    ELSE LET q == [kind |-> "text", collectionID |-> collectionID, text |-> textQuery,
                   limit |-> limit]
         IN  {Ret(<<>>, ErrStore, <<q>>, o)}
             \cup {Ret([i \in 1..Len(f) |-> TextResult(f[i], o)], Nil, <<q>>, o) :
                       f \in QueryText(store, collectionID, limit)}

\* the weight normalisation at the top of searchHybrid; it writes the
\* defaults into the caller's options when both weights are zero
HybridWeights_Unnormalized(o) ==
    [opts |-> o, vectorWeight |-> o.VectorWeight, textWeight |-> o.TextWeight]

HybridWeights(o) ==
    LET sum == RAdd(o.VectorWeight, o.TextWeight)
        o1 == IF sum = Zero
              THEN [o EXCEPT !.VectorWeight = Tenths(7), !.TextWeight = Tenths(3)]
              ELSE o
        totalWeight == IF sum = Zero THEN One ELSE sum
    IN  [opts |-> o1,
         vectorWeight |-> RDiv(o1.VectorWeight, totalWeight),
         textWeight |-> RDiv(o1.TextWeight, totalWeight)]

searchHybrid(collectionID, embedding, textQuery, limit, o) ==
    LET w == HybridWeights(o) IN
    IF embedding # Nil /\ textQuery # ""
    THEN LET maxDistance == EffectiveMaxDistance(w.opts)
             q == [kind |-> "hybrid", collectionID |-> collectionID, vector |-> embedding,
                   text |-> textQuery, maxDistance |-> maxDistance, limit |-> limit,
                   vectorWeight |-> w.vectorWeight, textWeight |-> w.textWeight]
         IN  {Ret(<<>>, ErrStore, <<q>>, w.opts)}
             \cup {Ret([i \in 1..Len(f) |-> HybridResult(f[i], w.vectorWeight, w.textWeight)],
                       Nil, <<q>>, w.opts) :
                       f \in QueryHybrid(store, collectionID, maxDistance, limit,
                                         w.vectorWeight, w.textWeight)}
    ELSE IF embedding # Nil
    THEN searchVectorOnly(collectionID, embedding, limit, w.opts)
    ELSE IF textQuery # ""
    THEN searchTextOnly(collectionID, textQuery, limit, w.opts)
    ELSE {Ret(<<>>, ErrInputRequired, <<>>, w.opts)}

\* searchSemantic: textQuery is not used; no check of the embedding
searchSemantic(collectionID, embedding, textQuery, limit, o) ==
    LET maxDistance == EffectiveMaxDistance(o)
        q == [kind |-> "semantic", collectionID |-> collectionID, vector |-> embedding,
              fileFilter |-> o.FileFilter, contentFilter |-> o.ContentFilter,
              maxDistance |-> maxDistance, limit |-> limit]
    IN  {Ret(<<>>, ErrStore, <<q>>, o)}
        \cup (IF embedding = Nil THEN {}
              ELSE {Ret([i \in 1..Len(f) |-> VectorResult(f[i], o)], Nil, <<q>>, o) :
                        f \in QuerySemantic(store, collectionID, o.FileFilter,
                                            o.ContentFilter, maxDistance, limit)})

\* ---- reranking -----------------------------------------------------------
DefaultInstruction == "Given a web search query, retrieve relevant passages that answer the query"

\* client.Reranker.Rerank, when it succeeds: one entry per document, the
\* score a function of the document text
RerankResponse(documents, score) ==
    [i \in 1..Len(documents) |->
        [Document |-> documents[i], Score |-> score[documents[i]], Rank |-> i]]

\* rerankMap[rr.Document] = &rr  (a later entry for the same text replaces an
\* earlier one; rr is a fresh variable per iteration as of Go 1.22)
RerankMap(rerankResults) ==
    [d \in {rerankResults[i].Document : i \in 1..Len(rerankResults)} |->
        rerankResults[CHOOSE i \in 1..Len(rerankResults) :
            /\ rerankResults[i].Document = d
            /\ \A j \in 1..Len(rerankResults) : rerankResults[j].Document = d => j <= i]]

\* result.CombinedScore = originalWeight*originalScore + rerankWeight*rerankingScore
FusedScore_RerankOnly(o, originalScore, rerankingScore) == rerankingScore

FusedScore(o, originalScore, rerankingScore) ==
    LET unset == o.OriginalWeight = Zero /\ o.RerankWeight = Zero
        originalWeight == IF unset THEN Tenths(7) ELSE o.OriginalWeight
        rerankWeight == IF unset THEN Tenths(3) ELSE o.RerankWeight
    IN  RAdd(RMul(originalWeight, originalScore), RMul(rerankWeight, rerankingScore))

\* results[i], results[j] = results[j], results[i]
Swap_Overwrite(f, i, j) == [f EXCEPT ![i] = f[j]]

Swap(f, i, j) == [f EXCEPT ![i] = f[j], ![j] = f[i]]

\* the two nested loops that sort by CombinedScore, used by applyReranking
\* and RankSearchResults
RECURSIVE SortInner(_, _, _)
SortInner(results, i, j) ==
    IF j > Len(results) THEN results
    ELSE SortInner(IF RLt(results[i].CombinedScore, results[j].CombinedScore)
                   THEN Swap(results, i, j) ELSE results,
                   i, j + 1)

RECURSIVE SortOuter(_, _)
SortOuter(results, i) ==
    IF i > Len(results) - 1 THEN results
    ELSE SortOuter(SortInner(results, i, i + 1), i + 1)

SortByCombinedScore(results) == SortOuter(results, 1)

\* for i, result := range results { result.Rank = i + 1 }
AssignRanks_FromReranker(results) == results

AssignRanks(results) == [i \in 1..Len(results) |-> [results[i] EXCEPT !.Rank = i]]

FilterByMinScore_Strict(results, minScore) ==
    SelectSeq(results, LAMBDA result : RLt(minScore, result.CombinedScore))

FilterByMinScore(results, minScore) ==
    SelectSeq(results, LAMBDA result : RLe(minScore, result.CombinedScore))

\* if err != nil { return nil, fmt.Errorf(...) } after the Rerank call: no
\* list is returned and the caller's candidates are as they were
RerankFailed_PassThrough(err, results, calls) ==
    [results |-> results, err |-> Nil, calls |-> calls, candidates |-> results]

RerankFailed(err, results, calls) ==
    [results |-> <<>>, err |-> err, calls |-> calls, candidates |-> results]

\* applyReranking; rerank is what the reranker answers: a transport failure,
\* or the score of each document text. candidates is the caller's list as
\* the call leaves it (the results are pointers, the sort is in place).
applyReranking(reranker, textQuery, results, o, rerank) ==
    IF reranker = Nil
    THEN [results |-> results, err |-> "reranker not initialized", calls |-> <<>>,
          candidates |-> results]
    ELSE
    LET documents == [i \in 1..Len(results) |-> results[i].Document.Content]
        instruction == IF o.RerankInstruction = "" THEN DefaultInstruction
                       ELSE o.RerankInstruction
        call == [query |-> textQuery, documents |-> documents, instruction |-> instruction]
    IN  IF rerank.failed
        THEN RerankFailed("reranking failed", results, <<call>>)
        ELSE LET rerankMap == RerankMap(RerankResponse(documents, rerank.score))
                 scored == [i \in 1..Len(results) |->
                              IF results[i].Document.Content \in DOMAIN rerankMap
                              THEN [results[i] EXCEPT
                                      !.CombinedScore =
                                          FusedScore(o, results[i].CombinedScore,
                                              rerankMap[results[i].Document.Content].Score),
                                      !.Rank = rerankMap[results[i].Document.Content].Rank]
                              ELSE results[i]]
                 ranked == AssignRanks(SortByCombinedScore(scored))
                 filtered == IF RLt(Zero, o.MinScore)
                             THEN FilterByMinScore(ranked, o.MinScore) ELSE ranked
                 limited == IF o.RerankLimit > 0 /\ Len(filtered) > o.RerankLimit
                            THEN SubSeq(filtered, 1, o.RerankLimit) ELSE filtered
             IN  [results |-> limited, err |-> Nil, calls |-> <<call>>,
                  candidates |-> ranked]

\* ---- SearchDocumentsWithOptions ------------------------------------------
\* the caller passed opts == nil
NilOptions == [SearchType |-> "nil"]

\* opts == nil: the defaults, in an object of the callee's own
DefaultSearchOptions ==
    [SearchType |-> SearchTypeHybrid, VectorWeight |-> Tenths(7), TextWeight |-> Tenths(3),
     MinScore |-> Zero, MaxDistance |-> One, FileFilter |-> <<>>, ContentFilter |-> <<>>,
     EnableReranking |-> FALSE, RerankInstruction |-> "", OriginalWeight |-> Zero,
     RerankWeight |-> Zero, RerankLimit |-> 0]

\* default: a SearchType that is none of the four constants
DispatchDefault_Reject(collectionID, embedding, textQuery, limit, o) ==
    {Ret(<<>>, "unsupported search type", <<>>, o)}

DispatchDefault(collectionID, embedding, textQuery, limit, o) ==
    searchHybrid(collectionID, embedding, textQuery, limit, o)

\* the switch on opts.SearchType
Dispatch(collectionID, embedding, textQuery, limit, o) ==
    CASE o.SearchType = SearchTypeVector ->
            searchVectorOnly(collectionID, embedding, limit, o)
      [] o.SearchType = SearchTypeText ->
            searchTextOnly(collectionID, textQuery, limit, o)
      [] o.SearchType = SearchTypeHybrid ->
            searchHybrid(collectionID, embedding, textQuery, limit, o)
      [] o.SearchType = SearchTypeSemantic ->
            searchSemantic(collectionID, embedding, textQuery, limit, o)
      [] OTHER ->
            DispatchDefault(collectionID, embedding, textQuery, limit, o)

RerankScores == {Tenths(1), Tenths(9)}

Done(results, err, retrieved, queries, rerankCalls) ==
    [pc |-> "done", results |-> results, err |-> err, retrieved |-> retrieved,
     queries |-> queries, rerankCalls |-> rerankCalls]

\* what the reranker can answer for a candidate list
RerankAnswers(results) ==
    [failed : BOOLEAN,
     score : [{results[i].Document.Content : i \in 1..Len(results)} -> RerankScores]]

\* the rerank stage of SearchDocumentsWithOptions
RerankStage(reranker, textQuery, results, o, rerank) ==
    IF o.EnableReranking /\ reranker # Nil
    THEN LET rr == applyReranking(reranker, textQuery, results, o, rerank) IN
         IF rr.err # Nil THEN [rr EXCEPT !.results = <<>>, !.err = ErrRerank] ELSE rr
    ELSE [results |-> results, err |-> Nil, calls |-> <<>>, candidates |-> results]

\* the ways one call can end: what it returns (with the history of the call)
\* and the caller's options object as the call leaves it
SearchCall(r, callerOpts) ==
    LET o == IF callerOpts = NilOptions THEN DefaultSearchOptions ELSE callerOpts IN
    UNION {
        LET optsAfter == IF callerOpts = NilOptions THEN NilOptions ELSE ret.opts IN
        IF ret.err # Nil
        THEN {[opts |-> optsAfter, out |-> Done(<<>>, ret.err, <<>>, ret.queries, <<>>)]}
        ELSE {LET st == RerankStage(r.reranker, r.textQuery, ret.results, ret.opts, rerank)
              IN  [opts |-> optsAfter,
                   out |-> Done(st.results, st.err, ret.results, ret.queries, st.calls)] :
                 rerank \in RerankAnswers(ret.results)} :
        ret \in Dispatch(r.collectionID, r.embedding, r.textQuery, r.limit, o)}

SearchDocumentsWithOptions ==
    /\ out.pc = "idle"
    /\ \E call \in SearchCall(req, opts) :
          /\ opts' = call.opts
          /\ out' = call.out
    /\ UNCHANGED <<req, cmd, chunkVars, indexVars>>

\* ---- the calls the model explores ----------------------------------------
RerankOptionSets ==
    {[EnableReranking |-> FALSE, RerankInstruction |-> "", OriginalWeight |-> Zero,
      RerankWeight |-> Zero, RerankLimit |-> 0, MinScore |-> Zero]}
    \cup [EnableReranking : {TRUE}, RerankInstruction : {""},
          OriginalWeight : {Tenths(0), Tenths(7)}, RerankWeight : {Tenths(0), Tenths(3)},
          RerankLimit : {0, 1}, MinScore : {Tenths(0), Tenths(5)}]

FilterPairs(type) ==
    IF type = SearchTypeSemantic
    THEN {<<(<<>>), (<<>>)>>, <<(<<"A">>), (<<>>)>>, <<(<<>>), (<<"X">>)>>}
    ELSE {<<(<<>>), (<<>>)>>}

OptionSet ==
    {[SearchType |-> type, VectorWeight |-> vw, TextWeight |-> tw, MinScore |-> rk.MinScore,
      MaxDistance |-> md, FileFilter |-> fl[1], ContentFilter |-> fl[2],
      EnableReranking |-> rk.EnableReranking, RerankInstruction |-> rk.RerankInstruction,
      OriginalWeight |-> rk.OriginalWeight, RerankWeight |-> rk.RerankWeight,
      RerankLimit |-> rk.RerankLimit] :
        type \in SearchTypes, vw \in WeightValues, tw \in WeightValues,
        md \in {Tenths(0), Tenths(5)}, fl \in UNION {FilterPairs(t) : t \in SearchTypes},
        rk \in RerankOptionSets}

ValidOption(o) == <<o.FileFilter, o.ContentFilter>> \in FilterPairs(o.SearchType)

InitSearch ==
    /\ config = [ChunkSize |-> 2, ChunkOverlap |-> 1]
    /\ text = <<>>
    /\ chunkRes = Idle
    /\ idx = <<>>
    /\ store = Documents
    /\ opts \in {o \in OptionSet : ValidOption(o)} \cup {NilOptions}
    /\ req \in [collectionID : Collections, embedding : {Nil, "qvec"},
                textQuery : {"", "q"}, limit : 1..MaxLimit,
                reranker : {Nil, "reranker"}, opts : {opts}]
    /\ out = IdleOut
    /\ cmd = NoCmd

NextSearch == SearchDocumentsWithOptions

SpecSearch == InitSearch /\ [][NextSearch]_vars

(***************************************************************************)
(* Search claims                                                           *)
(***************************************************************************)
SearchDone == out.pc = "done"

\* the options in force for the call (the caller's, as passed)
CallOpts == IF req.opts = NilOptions THEN DefaultSearchOptions ELSE req.opts

IsInvalidArgument(err) == err \in {ErrTextRequired, ErrInputRequired}

\* the input the chosen strategy requires is missing
MissingInput ==
    CASE CallOpts.SearchType \in {SearchTypeVector, SearchTypeSemantic} -> req.embedding = Nil
      [] CallOpts.SearchType = SearchTypeText -> req.textQuery = ""
      [] OTHER -> req.embedding = Nil /\ req.textQuery = ""

\* C8: when the input a strategy requires is missing, the search fails with
\* an argument-validation error and issues no store query.
C8_MissingInputIsInvalidArgument ==
    (SearchDone /\ MissingInput) =>
        /\ IsInvalidArgument(out.err)
        /\ out.queries = <<>>

\* C9: in hybrid mode with both a query vector and a query text, every result
\* of the retrieval has combinedScore = nv * vectorScore + nt * textScore,
\* (nv, nt) being the caller's weights divided by their sum.
HybridBoth ==
    /\ SearchDone
    /\ CallOpts.SearchType = SearchTypeHybrid
    /\ req.embedding # Nil /\ req.textQuery # ""

CallerWeightSum == RAdd(CallOpts.VectorWeight, CallOpts.TextWeight)

C9_HybridCombinedScore ==
    (HybridBoth /\ CallerWeightSum # Zero) =>
        \A i \in 1..Len(out.retrieved) :
            LET r == out.retrieved[i] IN
            /\ r.VectorScore = RSub(One, r.Document.dist)
            /\ r.TextScore = r.Document.trank
            /\ r.CombinedScore =
                  RAdd(RMul(RDiv(CallOpts.VectorWeight, CallerWeightSum), r.VectorScore),
                       RMul(RDiv(CallOpts.TextWeight, CallerWeightSum), r.TextScore))
            /\ (~(CallOpts.EnableReranking /\ req.reranker # Nil)) => out.results = out.retrieved

\* weights 0.7/0.3 and scores 0.8/0.5 give 0.71
C9_Witness ==
    /\ HybridBoth
    /\ CallOpts.VectorWeight = Tenths(7) /\ CallOpts.TextWeight = Tenths(3)
    /\ \E i \in 1..Len(out.results) :
          /\ out.results[i].VectorScore = Tenths(8)
          /\ out.results[i].TextScore = Tenths(5)
          /\ out.results[i].CombinedScore = Rat(71, 100)

\* C10: in searchHybrid, for positive vectorWeight and textWeight the two
\* weights passed to the combined query sum to 1, and when both supplied
\* weights are zero the weights passed are exactly 0.7 and 0.3.
C10_HybridWeightsNormalized ==
    SearchDone =>
        \A i \in 1..Len(out.queries) :
            LET q == out.queries[i] IN
            q.kind = "hybrid" =>
                /\ (RLt(Zero, CallOpts.VectorWeight) /\ RLt(Zero, CallOpts.TextWeight))
                      => RAdd(q.vectorWeight, q.textWeight) = One
                /\ (CallOpts.VectorWeight = Zero /\ CallOpts.TextWeight = Zero)
                      => (q.vectorWeight = Tenths(7) /\ q.textWeight = Tenths(3))

C10_Witness ==
    /\ SearchDone
    /\ CallOpts.VectorWeight = Tenths(3) /\ CallOpts.TextWeight = Tenths(3)
    /\ \E i \in 1..Len(out.queries) :
          /\ out.queries[i].kind = "hybrid"
          /\ out.queries[i].vectorWeight = Rat(1, 2)
          /\ out.queries[i].textWeight = Rat(1, 2)

\* the weights of a hybrid call after normalisation: the caller's weights
\* divided by their sum, or 0.7 and 0.3 when both are zero
NormalizedVectorWeight ==
    IF CallerWeightSum = Zero THEN Tenths(7) ELSE RDiv(CallOpts.VectorWeight, CallerWeightSum)

NormalizedTextWeight ==
    IF CallerWeightSum = Zero THEN Tenths(3) ELSE RDiv(CallOpts.TextWeight, CallerWeightSum)

HybridCall == SearchDone /\ CallOpts.SearchType = SearchTypeHybrid

\* C11: every combinedScore a hybrid-strategy search produces is computed
\* with the normalized weights (which sum to 1), also when only the query
\* vector or only the query text is present and the single-mode path runs.
C11_HybridAlwaysNormalized ==
    HybridCall =>
        \A i \in 1..Len(out.retrieved) :
            LET r == out.retrieved[i] IN
            r.CombinedScore = RAdd(RMul(NormalizedVectorWeight, r.VectorScore),
                                   RMul(NormalizedTextWeight, r.TextScore))

\* C12: in vector mode every result has combinedScore = vectorScore x
\* vectorWeight, the weight being 1.0 when the caller left it at zero.
C12_VectorWeightDefaultsToOne ==
    (SearchDone /\ CallOpts.SearchType = SearchTypeVector) =>
        \A i \in 1..Len(out.retrieved) :
            LET r == out.retrieved[i]
                vectorWeight == IF CallOpts.VectorWeight = Zero THEN One
                                ELSE CallOpts.VectorWeight
            IN  r.CombinedScore = RMul(r.VectorScore, vectorWeight)

\* the outcomes of the same call made with another strategy value
OutcomesWithType(type) ==
    {call.out : call \in SearchCall(req, [req.opts EXCEPT !.SearchType = type])}

UnknownTypeCall == SearchDone /\ req.opts # NilOptions /\ req.opts.SearchType = "fuzzy"

\* C13: a call with a strategy value that is none of the four constants ends
\* as a call with strategy hybrid can end for the same collection, inputs,
\* limit and options (same results, same error), and every way the hybrid
\* call can end is a way the call with the unknown value can end.
C13_UnknownTypeIsHybrid ==
    /\ UnknownTypeCall => out \in OutcomesWithType(SearchTypeHybrid)
    /\ (SearchDone /\ req.opts # NilOptions /\ req.opts.SearchType = SearchTypeHybrid)
          => out \in OutcomesWithType("fuzzy")

C13_Witness ==
    /\ UnknownTypeCall
    /\ req.embedding # Nil /\ req.textQuery # ""
    /\ out.err = Nil
    /\ Len(out.results) = 2
    /\ \E i \in 1..Len(out.queries) : out.queries[i].kind = "hybrid"

\* C14: a search whose retrieval yields zero candidates fails (NotFound); a
\* call that ends without error has retrieved at least one candidate.
C14_ZeroCandidatesIsNotFound ==
    (SearchDone /\ out.retrieved = <<>>) => out.err # Nil

(***************************************************************************)
(* The two fusion entry points on a given candidate list: the rerank stage *)
(* of the search engine and reranking.Service.RerankWithOptions            *)
(***************************************************************************)
MaxCandidates == 2

CandidateScores == {Tenths(5), Rat(71, 100)}

\* a candidate list: search results for distinct documents of one collection
CandidateLists ==
    LET rows == {row \in Documents : row.CollectionID = "c1"} IN
    {list \in UNION {[1..n -> [Document : rows, VectorScore : {Zero}, TextScore : {Zero},
                               CombinedScore : CandidateScores, Rank : {0}]] :
                        n \in 0..MaxCandidates} :
        \A i, j \in 1..Len(list) : i # j => list[i].Document # list[j].Document}

\* type RerankOptions struct
RerankOptionSet ==
    [Instruction : {""}, OriginalWeight : {Tenths(0), Tenths(7)},
     RerankWeight : {Tenths(0), Tenths(3)}, MinScore : {Tenths(0), Tenths(5)},
     Limit : {0, 1}]

\* opts == nil in RerankWithOptions
DefaultRerankOptions ==
    [Instruction |-> "Given a search query, retrieve relevant passages that answer the query",
     OriginalWeight |-> Tenths(7), RerankWeight |-> Tenths(3), MinScore |-> Zero, Limit |-> 0]

\* the search options that carry the same reranking settings, as the search
\* command builds them
AsSearchOptions(ro) ==
    [DefaultSearchOptions EXCEPT !.EnableReranking = TRUE,
                                 !.RerankInstruction = ro.Instruction,
                                 !.OriginalWeight = ro.OriginalWeight,
                                 !.RerankWeight = ro.RerankWeight,
                                 !.RerankLimit = ro.Limit,
                                 !.MinScore = ro.MinScore]

\* result.CombinedScore = opts.OriginalWeight*originalScore + opts.RerankWeight*rerankingScore
ServiceFusedScore(o, originalScore, rerankingScore) ==
    RAdd(RMul(o.OriginalWeight, originalScore), RMul(o.RerankWeight, rerankingScore))

\* sort.Slice by CombinedScore, descending: sort.Slice is not stable, so the
\* outcome is any arrangement with non-increasing scores
SortSlice(results) ==
    {[i \in 1..Len(results) |-> results[p[i]]] :
        p \in {q \in Perms(1..Len(results)) :
                  \A i \in 1..(Len(results) - 1) :
                      RLe(results[q[i + 1]].CombinedScore, results[q[i]].CombinedScore)}}

\* reranking.Service.RerankWithOptions: the ways the call can end
RerankWithOptions(reranker, query, results, ro, rerank) ==
    LET o == IF ro = NilOptions THEN DefaultRerankOptions ELSE ro IN
    IF Len(results) = 0
    THEN {[results |-> results, err |-> Nil, calls |-> <<>>, candidates |-> results]}
    ELSE
    LET documents == [i \in 1..Len(results) |-> results[i].Document.Content]
        call == [query |-> query, documents |-> documents, instruction |-> o.Instruction]
    IN  IF rerank.failed
        THEN {RerankFailed("failed to rerank documents", results, <<call>>)}
        ELSE LET rerankMap == RerankMap(RerankResponse(documents, rerank.score))
                 scored == [i \in 1..Len(results) |->
                              IF results[i].Document.Content \in DOMAIN rerankMap
                              THEN [results[i] EXCEPT
                                      !.CombinedScore =
                                          ServiceFusedScore(o, results[i].CombinedScore,
                                              rerankMap[results[i].Document.Content].Score),
                                      !.Rank = rerankMap[results[i].Document.Content].Rank]
                              ELSE results[i]]
             IN  {LET ranked == AssignRanks(sorted)
                      filtered == IF RLt(Zero, o.MinScore)
                                  THEN FilterByMinScore(ranked, o.MinScore) ELSE ranked
                      limited == IF o.Limit > 0 /\ Len(filtered) > o.Limit
                                 THEN SubSeq(filtered, 1, o.Limit) ELSE filtered
                  IN  [results |-> limited, err |-> Nil, calls |-> <<call>>,
                       candidates |-> ranked] :
                     sorted \in SortSlice(scored)}

\* the end of a call of either entry point: what it returned, the list it was
\* given, that list as the call left it, the reranker calls and answer
RerankDone(entry, st, rerank) ==
    [pc |-> "done", entry |-> entry, results |-> st.results, err |-> st.err,
     retrieved |-> req.results, candidates |-> st.candidates, rerankCalls |-> st.calls,
     answer |-> rerank]

\* the engine's rerank stage on the candidate list
CallRerankStage ==
    /\ out.pc = "idle"
    /\ \E rerank \in RerankAnswers(req.results) :
          LET o == IF opts = NilOptions THEN DefaultSearchOptions ELSE AsSearchOptions(opts)
              st == RerankStage(req.reranker, req.query, req.results, o, rerank)
          IN  out' = RerankDone("applyReranking", st, rerank)
    /\ UNCHANGED <<req, opts, cmd, chunkVars, indexVars>>

CallRerankWithOptions ==
    /\ out.pc = "idle"
    /\ \E rerank \in RerankAnswers(req.results) :
          \E st \in RerankWithOptions(req.reranker, req.query, req.results, opts, rerank) :
              out' = RerankDone("RerankWithOptions", st, rerank)
    /\ UNCHANGED <<req, opts, cmd, chunkVars, indexVars>>

InitRerank ==
    /\ config = [ChunkSize |-> 2, ChunkOverlap |-> 1]
    /\ text = <<>>
    /\ chunkRes = Idle
    /\ idx = <<>>
    /\ store = Documents
    /\ opts \in RerankOptionSet \cup {NilOptions}
    /\ req \in [query : {"q"}, results : CandidateLists, reranker : {"reranker"}]
    /\ out = IdleOut
    /\ cmd = NoCmd

NextRerank == CallRerankStage \/ CallRerankWithOptions

SpecRerank == InitRerank /\ [][NextRerank]_vars

(***************************************************************************)
(* Reranking claims                                                        *)
(***************************************************************************)
\* a call that reached the reranker and got an answer
Reranked == out.pc = "done" /\ out.rerankCalls # <<>> /\ out.err = Nil

\* the weights the caller asked for; 0.7 and 0.3 when the caller left both
\* at zero or passed no options
CallerOriginalWeight ==
    IF opts = NilOptions \/ (opts.OriginalWeight = Zero /\ opts.RerankWeight = Zero)
    THEN Tenths(7) ELSE opts.OriginalWeight

CallerRerankWeight ==
    IF opts = NilOptions \/ (opts.OriginalWeight = Zero /\ opts.RerankWeight = Zero)
    THEN Tenths(3) ELSE opts.RerankWeight

\* C15: in both entry points every candidate the reranker scored ends with
\* combinedScore = originalWeight x old combinedScore + rerankWeight x rerank
\* score, the weights being 0.7 and 0.3 when the caller left both at zero.
C15_FusionFormula ==
    Reranked =>
        \A i \in 1..Len(out.retrieved) :
            \E j \in 1..Len(out.candidates) :
                /\ out.candidates[j].Document = out.retrieved[i].Document
                /\ out.candidates[j].CombinedScore =
                      RAdd(RMul(CallerOriginalWeight, out.retrieved[i].CombinedScore),
                           RMul(CallerRerankWeight,
                                out.answer.score[out.retrieved[i].Document.Content]))

\* C16: the list a successful reranking returns, after the minimum-score
\* cutoff and the cap, is in non-increasing combinedScore order and its
\* ranks are 1..len(list), in both entry points.
C16_SortedAndRanked ==
    Reranked =>
        \A i \in 1..Len(out.results) :
            /\ out.results[i].Rank = i
            /\ i < Len(out.results) =>
                  RLe(out.results[i + 1].CombinedScore, out.results[i].CombinedScore)

\* the reranker's scores turned the order of two candidates around
C16_Witness ==
    /\ Reranked
    /\ Len(out.retrieved) = 2 /\ Len(out.results) = 2
    /\ out.results[1].Document = out.retrieved[2].Document
    /\ RLt(out.results[2].CombinedScore, out.results[1].CombinedScore)

\* the place of a document in the list the call was given
Pos(d) == CHOOSE k \in 1..Len(out.retrieved) : out.retrieved[k].Document = d

\* the returned candidates are in the order they had before the call
SameOrder ==
    \A i, j \in 1..Len(out.results) :
        i < j => Pos(out.results[i].Document) < Pos(out.results[j].Document)

\* the same, for candidates whose scores before the call differ
SameOrderUpToTies ==
    \A i, j \in 1..Len(out.results) :
        (i < j /\ out.retrieved[Pos(out.results[i].Document)].CombinedScore
                     # out.retrieved[Pos(out.results[j].Document)].CombinedScore)
            => Pos(out.results[i].Document) < Pos(out.results[j].Document)

ZeroRerankWeight == Reranked /\ opts # NilOptions /\ opts.RerankWeight = Zero

\* the list the call was given is in non-increasing combinedScore order
GivenSorted ==
    \A i \in 1..(Len(out.retrieved) - 1) :
        RLe(out.retrieved[i + 1].CombinedScore, out.retrieved[i].CombinedScore)

\* C17, unrestricted: with rerankWeight = 0 the candidates come back in the
\* order of the list given, whatever originalWeight is.
C17_ZeroRerankWeightPassThrough == ZeroRerankWeight => SameOrder

\* C17: with rerankWeight = 0 and originalWeight > 0, a candidate list given
\* in non-increasing combinedScore order comes back in that order (the
\* engine's stage keeps it exactly; RerankWithOptions may exchange
\* candidates of equal score).
C17_ZeroRerankWeightKeepsSortedOrder ==
    (ZeroRerankWeight /\ RLt(Zero, opts.OriginalWeight) /\ GivenSorted) =>
        /\ SameOrderUpToTies
        /\ out.entry = "applyReranking" => SameOrder

\* the reranker prefers the second candidate, and the order stays
C17_Witness ==
    /\ ZeroRerankWeight /\ RLt(Zero, opts.OriginalWeight) /\ GivenSorted
    /\ Len(out.retrieved) = 2 /\ Len(out.results) = 2
    /\ RLt(out.retrieved[2].CombinedScore, out.retrieved[1].CombinedScore)
    /\ RLt(out.answer.score[out.retrieved[1].Document.Content],
           out.answer.score[out.retrieved[2].Document.Content])
    /\ out.results[1].Document = out.retrieved[1].Document

\* C18: when the reranker call fails, the call returns an error and no list,
\* and every candidate is as it was before the call (none re-scored, none
\* re-ranked, none moved).
C18_RerankerErrorAbortsCall ==
    (out.pc = "done" /\ out.rerankCalls # <<>> /\ out.answer.failed) =>
        /\ out.err # Nil
        /\ out.results = <<>>
        /\ out.candidates = out.retrieved

C18_Witness ==
    /\ out.pc = "done" /\ out.rerankCalls # <<>> /\ out.answer.failed
    /\ Len(out.retrieved) = 2
    /\ out.err # Nil

(***************************************************************************)
(* Search claims, continued                                                *)
(***************************************************************************)
\* C19: a call with reranking enabled that returns a list without error has
\* invoked the reranker on the candidates it retrieved; an engine without a
\* reranker fails such a call.
C19_EnabledMeansReranked ==
    (SearchDone /\ CallOpts.EnableReranking /\ out.err = Nil) =>
        /\ Len(out.rerankCalls) = 1
        /\ out.rerankCalls[1].documents =
              [i \in 1..Len(out.retrieved) |-> out.retrieved[i].Document.Content]

(***************************************************************************)
(* The search command (rag-cli search <collection> <query>)                *)
(***************************************************************************)
\* RankSearchResults: the same two loops as in applyReranking, then ranks
RankSearchResults(results) == AssignRanks(SortByCombinedScore(results))

\* FilterSearchResults
FilterSearchResults(results, minScore) ==
    IF RLe(minScore, Zero) THEN results ELSE FilterByMinScore(results, minScore)

\* the flags of the command; the weights are the flags' defaults
CmdFlagSets ==
    [type : SearchTypes, limit : 1..MaxLimit, vectorWeight : {Tenths(7)},
     textWeight : {Tenths(3)}, minScore : {Tenths(0), Tenths(5)}, maxDistance : {One},
     fileFilter : {<<>>}, contentFilter : {<<>>}, rerank : BOOLEAN,
     rerankInstruction : {DefaultInstruction}, originalWeight : {Tenths(7)},
     rerankWeight : {Tenths(3)}, rerankLimit : {0, 1}]

\* searchOpts, with the reranking options added if enabled
CmdSearchOptions(flags) ==
    [SearchType |-> flags.type, VectorWeight |-> flags.vectorWeight,
     TextWeight |-> flags.textWeight, MinScore |-> flags.minScore,
     MaxDistance |-> flags.maxDistance, FileFilter |-> flags.fileFilter,
     ContentFilter |-> flags.contentFilter, EnableReranking |-> flags.rerank,
     RerankInstruction |-> IF flags.rerank THEN flags.rerankInstruction ELSE "",
     OriginalWeight |-> IF flags.rerank THEN flags.originalWeight ELSE Zero,
     RerankWeight |-> IF flags.rerank THEN flags.rerankWeight ELSE Zero,
     RerankLimit |-> IF flags.rerank THEN flags.rerankLimit ELSE 0]

NeedsEmbedding(type) == type \in {SearchTypeVector, SearchTypeHybrid, SearchTypeSemantic}

\* queryEmbedding and textQuery as the switch on the search type sets them,
\* the engine the command built, and the arguments of the engine call
CmdRequest(c) ==
    [collectionID |-> c.collection,
     embedding |-> IF NeedsEmbedding(c.flags.type) THEN "qvec" ELSE Nil,
     textQuery |-> IF c.flags.type \in {SearchTypeText, SearchTypeHybrid}
                   THEN c.query ELSE "",
     limit |-> c.flags.limit,
     reranker |-> IF c.flags.rerank THEN "reranker" ELSE Nil,
     opts |-> CmdSearchOptions(c.flags)]

\* the collaborators that can fail before the engine is called
CmdFailures(flags) ==
    {"failed to connect to database", "failed to get collection"}
    \cup (IF flags.rerank THEN {"failed to create reranker"} ELSE {})
    \cup (IF NeedsEmbedding(flags.type) THEN {"failed to generate query embedding"} ELSE {})

\* the command after the engine call: the error, or the results ranked and
\* filtered as it prints them
CmdAfterSearch(c, call) ==
    [c EXCEPT !.pc = "done",
              !.err = IF call.out.err # Nil THEN ErrStore ELSE Nil,
              !.shown = IF call.out.err # Nil THEN <<>>
                        ELSE FilterSearchResults(RankSearchResults(call.out.results),
                                                 c.flags.minScore)]

\* searchCmd.RunE
searchCmd ==
    /\ cmd.pc = "start"
    /\ \/ /\ \E failure \in CmdFailures(cmd.flags) :
                cmd' = [cmd EXCEPT !.pc = "done", !.err = failure]
          /\ UNCHANGED <<req, opts, out>>
       \/ LET r == CmdRequest(cmd) IN
          \E call \in SearchCall(r, r.opts) :
             /\ req' = r
             /\ opts' = call.opts
             /\ out' = call.out
             /\ cmd' = CmdAfterSearch(cmd, call)
    /\ UNCHANGED <<chunkVars, indexVars>>

InitCmd ==
    /\ config = [ChunkSize |-> 2, ChunkOverlap |-> 1]
    /\ text = <<>>
    /\ chunkRes = Idle
    /\ idx = <<>>
    /\ store = Documents
    /\ req = Nil
    /\ opts = NilOptions
    /\ out = IdleOut
    /\ cmd \in [pc : {"start"}, collection : Collections, query : {"", "q"},
                flags : CmdFlagSets, err : {Nil}, shown : {<<>>}]

NextCmd == searchCmd

SpecCmd == InitCmd /\ [][NextCmd]_vars

\* C20: in the search command with --rerank, a search that succeeds has
\* invoked the reranker, and every invocation carries the user's query text,
\* for every search type; the reranker never gets an empty query for a
\* non-empty user query.
C20_RerankerGetsUserQuery ==
    (cmd.pc = "done" /\ cmd.flags.rerank /\ cmd.query # "") =>
        /\ cmd.err = Nil => out.rerankCalls # <<>>
        /\ \A i \in 1..Len(out.rerankCalls) : out.rerankCalls[i].query = cmd.query

\* the document texts of the first n retrieved candidates
RetrievedContents(n) ==
    [i \in 1..(IF n < Len(out.retrieved) THEN n ELSE Len(out.retrieved)) |->
        out.retrieved[i].Document.Content]

\* C21: with a rerank limit K > 0 the reranker is given only the top K
\* results of the initial search; with K = 0 it is given all of them.
C21_RerankLimitBoundsSubmission ==
    SearchDone =>
        \A i \in 1..Len(out.rerankCalls) :
            out.rerankCalls[i].documents =
                IF CallOpts.RerankLimit > 0 THEN RetrievedContents(CallOpts.RerankLimit)
                ELSE RetrievedContents(Len(out.retrieved))

(***************************************************************************)
(* RankSearchResults, FilterSearchResults and GetSearchStats on a given    *)
(* result list                                                             *)
(***************************************************************************)
MaxResults == 3

\* float64 arithmetic rounds every sum and quotient to the nearest value
\* with a 53-bit significand, ties to even.  The model keeps the rounding
\* and narrows the significand to MantissaBits bits; the scores below are
\* exact at that width.
MantissaBits == 3

RECURSIVE Pow2(_)
Pow2(n) == IF n = 0 THEN 1 ELSE 2 * Pow2(n - 1)

\* the value n/d * sn/sd with n/d brought into [2^(p-1), 2^p), rounded
RECURSIVE RoundAt(_, _, _, _)
RoundAt(n, d, sn, sd) ==
    IF n >= Pow2(MantissaBits) * d THEN RoundAt(n, 2 * d, 2 * sn, sd)
    ELSE IF n < Pow2(MantissaBits - 1) * d THEN RoundAt(2 * n, d, sn, 2 * sd)
    ELSE LET m == n \div d
             r == n % d
             up == 2 * r > d \/ (2 * r = d /\ m % 2 = 1)
         IN  Rat((IF up THEN m + 1 ELSE m) * sn, sd)

\* round to nearest, ties to even
Round(x) ==
    IF x[1] = 0 THEN Zero
    ELSE IF x[1] < 0 THEN RSub(Zero, RoundAt(-x[1], x[2], 1, 1))
    ELSE RoundAt(x[1], x[2], 1, 1)

\* float64 + and /
FAdd(x, y) == Round(RAdd(x, y))
FDiv(x, y) == Round(RDiv(x, y))

ResultScores == {Rat(3, 8), Rat(1, 2), Rat(3, 4)}

\* a result list handed to the three functions
ResultLists ==
    LET rows == {row \in Documents : row.CollectionID = "c1"} IN
    {list \in UNION {[1..n -> [Document : rows, VectorScore : {Rat(3, 4)},
                               TextScore : {Rat(1, 2)}, CombinedScore : ResultScores,
                               Rank : {0}]] :
                        n \in 0..MaxResults} :
        \A i, j \in 1..Len(list) : i # j => list[i].Document # list[j].Document}

MinScoreValues == {Rat(-1, 2), Zero, Rat(1, 2), Rat(5, 8)}

\* the loop of GetSearchStats: the three running sums, the minimum and the
\* maximum after the first k results
RECURSIVE StatsLoop(_, _)
StatsLoop(results, k) ==
    IF k = 0
    THEN [totalVectorScore |-> Zero, totalTextScore |-> Zero, totalCombinedScore |-> Zero,
          minScore |-> results[1].CombinedScore, maxScore |-> results[1].CombinedScore]
    ELSE LET acc == StatsLoop(results, k - 1)
             result == results[k]
         IN  [totalVectorScore |-> FAdd(acc.totalVectorScore, result.VectorScore),
              totalTextScore |-> FAdd(acc.totalTextScore, result.TextScore),
              totalCombinedScore |-> FAdd(acc.totalCombinedScore, result.CombinedScore),
              minScore |-> IF RLt(result.CombinedScore, acc.minScore)
                           THEN result.CombinedScore ELSE acc.minScore,
              maxScore |-> IF RLt(acc.maxScore, result.CombinedScore)
                           THEN result.CombinedScore ELSE acc.maxScore]

GetSearchStats(results) ==
    IF Len(results) = 0
    THEN [total_results |-> 0, avg_vector_score |-> Zero, avg_text_score |-> Zero,
          avg_combined_score |-> Zero, min_score |-> Zero, max_score |-> Zero]
    ELSE LET acc == StatsLoop(results, Len(results))
             count == Rat(Len(results), 1)
         IN  [total_results |-> Len(results),
              avg_vector_score |-> FDiv(acc.totalVectorScore, count),
              avg_text_score |-> FDiv(acc.totalTextScore, count),
              avg_combined_score |-> FDiv(acc.totalCombinedScore, count),
              min_score |-> acc.minScore,
              max_score |-> acc.maxScore]

NoStats == [total_results |-> -1]

\* the end of a call: the function called, the list given, what came back
RankDone(op, results, stats) ==
    [pc |-> "done", op |-> op, given |-> req.results, results |-> results, stats |-> stats]

CallRankSearchResults ==
    /\ out.pc = "idle"
    /\ out' = RankDone("RankSearchResults", RankSearchResults(req.results), NoStats)
    /\ UNCHANGED <<req, opts, cmd, chunkVars, indexVars>>

CallFilterSearchResults ==
    /\ out.pc = "idle"
    /\ out' = RankDone("FilterSearchResults",
                       FilterSearchResults(req.results, req.minScore), NoStats)
    /\ UNCHANGED <<req, opts, cmd, chunkVars, indexVars>>

CallGetSearchStats ==
    /\ out.pc = "idle"
    /\ out' = RankDone("GetSearchStats", req.results, GetSearchStats(req.results))
    /\ UNCHANGED <<req, opts, cmd, chunkVars, indexVars>>

InitRank ==
    /\ config = [ChunkSize |-> 2, ChunkOverlap |-> 1]
    /\ text = <<>>
    /\ chunkRes = Idle
    /\ idx = <<>>
    /\ store = Documents
    /\ opts = NilOptions
    /\ req \in [results : ResultLists, minScore : MinScoreValues]
    /\ out = IdleOut
    /\ cmd = NoCmd

NextRank == CallRankSearchResults \/ CallFilterSearchResults \/ CallGetSearchStats

SpecRank == InitRank /\ [][NextRank]_vars

(***************************************************************************)
(* Claims on ranking, filtering and statistics                             *)
(***************************************************************************)
Ranked == out.pc = "done" /\ out.op = "RankSearchResults"

\* the place of a document in the list given
GivenPos(d) == CHOOSE k \in 1..Len(out.given) : out.given[k].Document = d

\* C22: RankSearchResults returns the entries it was given, each once, in
\* non-increasing combinedScore order, with rank = position (from 1).
C22_RankIsSortedPermutation ==
    Ranked =>
        /\ Len(out.results) = Len(out.given)
        /\ \A k \in 1..Len(out.given) :
              \E i \in 1..Len(out.results) :
                  out.results[i] = [out.given[k] EXCEPT !.Rank = i]
        /\ \A i \in 1..(Len(out.results) - 1) :
              RLe(out.results[i + 1].CombinedScore, out.results[i].CombinedScore)

\* three entries given in ascending order come back reversed
C22_Witness ==
    /\ Ranked
    /\ Len(out.given) = 3
    /\ RLt(out.given[1].CombinedScore, out.given[2].CombinedScore)
    /\ RLt(out.given[2].CombinedScore, out.given[3].CombinedScore)
    /\ out.results[1].Document = out.given[3].Document
    /\ out.results[3].Rank = 3

\* C23: RankSearchResults is stable: entries of equal combinedScore keep
\* their relative order.
C23_RankIsStable ==
    Ranked =>
        \A i, j \in 1..Len(out.results) :
            (i < j /\ out.results[i].CombinedScore = out.results[j].CombinedScore)
                => GivenPos(out.results[i].Document) < GivenPos(out.results[j].Document)

\* the filter written out entry by entry
RECURSIVE RefFilter(_, _)
RefFilter(list, m) ==
    IF list = <<>> THEN <<>>
    ELSE IF RLt(Head(list).CombinedScore, m) THEN RefFilter(Tail(list), m)
    ELSE <<Head(list)>> \o RefFilter(Tail(list), m)

Filtered == out.pc = "done" /\ out.op = "FilterSearchResults"

\* C24: FilterSearchResults(results, m) returns the input unchanged when
\* m <= 0 and otherwise exactly the entries with combinedScore >= m, in
\* input order, entries with score m included.
C24_FilterIsReference ==
    Filtered =>
        out.results = IF RLe(req.minScore, Zero) THEN out.given
                      ELSE RefFilter(out.given, req.minScore)

\* an entry at the threshold is kept, one below it is dropped
C24_Witness ==
    /\ Filtered
    /\ req.minScore = Rat(1, 2)
    /\ Len(out.given) = 3 /\ Len(out.results) = 2
    /\ \E i \in 1..2 : out.results[i].CombinedScore = Rat(1, 2)

\* C25: on the empty list GetSearchStats returns count 0 and 0 for every
\* average, the minimum and the maximum; on a non-empty list the count is
\* the length and min_score <= avg_combined_score <= max_score.
C25_StatsBounds ==
    (out.pc = "done" /\ out.op = "GetSearchStats") =>
        IF out.given = <<>>
        THEN out.stats = [total_results |-> 0, avg_vector_score |-> Zero,
                          avg_text_score |-> Zero, avg_combined_score |-> Zero,
                          min_score |-> Zero, max_score |-> Zero]
        ELSE /\ out.stats.total_results = Len(out.given)
             /\ RLe(out.stats.min_score, out.stats.avg_combined_score)
             /\ RLe(out.stats.avg_combined_score, out.stats.max_score)

(***************************************************************************)
(* The search command step by step, with a caller that can cancel          *)
(***************************************************************************)
\* the context each external call of a query is given: the embed call gets
\* context.Background(), db.Query takes no context, Rerank gets
\* context.Background(); "caller" would be a context handed down by the caller
EmbedContext == "background"
QueryContext == "none"
RerankContext == "background"

\* a call observes the caller's cancellation only through the caller's context
Observes(ctx) == ctx = "caller"

\* the caller's deadline or cancellation fires while the query is in progress
CancelCaller ==
    /\ cmd.pc \in {"start", "search"}
    /\ ~cmd.cancelled
    /\ cmd' = [cmd EXCEPT !.cancelled = TRUE]
    /\ UNCHANGED <<req, opts, out, chunkVars, indexVars>>

\* RunE up to the switch on the search type: the query embedding
CmdEmbedQuery ==
    /\ cmd.pc = "start"
    /\ IF NeedsEmbedding(cmd.flags.type)
       THEN \/ cmd' = [cmd EXCEPT !.pc = "done",
                                  !.err = "failed to generate query embedding"]
            \/ /\ ~(cmd.cancelled /\ Observes(EmbedContext))
               /\ cmd' = [cmd EXCEPT !.pc = "search"]
       ELSE cmd' = [cmd EXCEPT !.pc = "search"]
    /\ UNCHANGED <<req, opts, out, chunkVars, indexVars>>

\* RunE from the engine call on
CmdSearchDocuments ==
    /\ cmd.pc = "search"
    /\ LET r == CmdRequest(cmd) IN
       \E call \in SearchCall(r, r.opts) :
          /\ (cmd.cancelled /\ (\/ (call.out.queries # <<>> /\ Observes(QueryContext))
                                \/ (call.out.rerankCalls # <<>> /\ Observes(RerankContext))))
                => call.out.err # Nil
          /\ req' = r
          /\ opts' = call.opts
          /\ out' = call.out
          /\ cmd' = CmdAfterSearch(cmd, call)
    /\ UNCHANGED <<chunkVars, indexVars>>

InitCancel ==
    /\ config = [ChunkSize |-> 2, ChunkOverlap |-> 1]
    /\ text = <<>>
    /\ chunkRes = Idle
    /\ idx = <<>>
    /\ store = Documents
    /\ req = Nil
    /\ opts = NilOptions
    /\ out = IdleOut
    /\ cmd \in [pc : {"start"}, collection : Collections, query : {"", "q"},
                flags : CmdFlagSets, err : {Nil}, shown : {<<>>}, cancelled : {FALSE}]

NextCancel == CancelCaller \/ CmdEmbedQuery \/ CmdSearchDocuments

SpecCancel == InitCancel /\ [][NextCancel]_vars

\* C26: a query whose caller cancelled while it was in progress ends with an
\* error and shows no result list.
C26_CancelledCallFails ==
    (cmd.pc = "done" /\ cmd.cancelled) => (cmd.err # Nil /\ cmd.shown = <<>>)

(***************************************************************************)
(* Indexing claims, continued                                              *)
(***************************************************************************)
\* no run started while another was in progress
Serialized == \A r \in DOMAIN idx : ~idx[r].overlap

\* two rows of one (collection, file path) stored by different runs with the
\* same chunk index
DuplicateChunk ==
    \E c \in Collections, p \in TextPaths :
        \E a, b \in RowsOf(c, p) : a.ID[1] # b.ID[1] /\ a.ChunkIndex = b.ChunkIndex

\* C27: when the indexing runs are serialized, the store never holds two
\* rows for one collection, file path and chunk index; runs that interleave
\* can end in such a state (the witness).
C27_SerializedRunsNeverDuplicate == Serialized => ~DuplicateChunk

C27_Witness ==
    /\ ~Serialized
    /\ \A r \in DOMAIN idx : idx[r].pc = "done" /\ idx[r].err = Nil
    /\ DuplicateChunk

\* the chunk indices stored for one (collection, file path)
StoredIndices(c, p) == {row.ChunkIndex : row \in RowsOf(c, p)}

\* C28: after an indexing run, the rows stored for each file path of its
\* collection have the chunk indices 0..N-1, also when the insert of a
\* chunk failed and the run went on with the next chunk.
C28_StoredIndicesContiguous ==
    \A r \in DOMAIN idx :
        (idx[r].pc = "done" /\ LatestRun(r)) =>
            \A p \in TextPaths :
                StoredIndices(idx[r].collectionID, p)
                    = 0..(Cardinality(RowsOf(idx[r].collectionID, p)) - 1)

\* the file was stored completely by an earlier run q and its re-indexing
\* in run r failed in ChunkText or GenerateEmbeddings
FailedReindex(q, r, p) ==
    /\ q < r
    /\ LatestRun(r)
    /\ idx[q].collectionID = idx[r].collectionID
    /\ idx[q].log[p].outcome = "ok" /\ idx[q].log[p].insertErrs = 0
    /\ idx[r].log[p].outcome \in {"chunk", "embed"}

\* C29: when chunking or embedding fails while a file is re-indexed, the
\* chunks the previous successful run stored for it are still in the store.
C29_FailedReindexKeepsChunks ==
    \A q, r \in DOMAIN idx : \A p \in TextPaths :
        FailedReindex(q, r, p) =>
            RowPairs(RowsOf(idx[r].collectionID, p)) = ChunkPairs(idx[q].log[p].chunks)

(***************************************************************************)
(* Search claims: the caller's options                                     *)
(***************************************************************************)
\* C30: after a call of SearchDocumentsWithOptions, every field of the
\* caller's options object has the value it had before the call.
C30_OptionsNotModified == SearchDone => opts = req.opts
====
